---- MODULE Spec2Model ----
(***************************************************************************)
(* riv: the image carousel of src/src/program.rs.                          *)
(*                                                                         *)
(* The state is Program's `images` and `index` together with the position  *)
(* of `run`.  Every handler of the event loop is one action.  The external *)
(* collaborators (filesystem, image decoder, canvas, event pump) are not   *)
(* part of the repository: each of their calls is recorded in `effects`,   *)
(* in the order the code makes them, and its outcome is an input of the    *)
(* action, drawn from Env.                                                 *)
(*                                                                         *)
(* `index` is 0-based as in the source; sequences are 1-based, so the      *)
(* element the source calls images[index] is images[index + 1] here.       *)
(***************************************************************************)
EXTENDS Integers, Sequences, FiniteSets, TLC

VARIABLES
    images,   \* Program.images : Vec<PathBuf>
    index,    \* Program.index  : usize
    pc,       \* where `run` (or the unit under test) stands
    op,       \* the operation that produced this state, with the state it started from
    effects,  \* the calls that operation made to the collaborators, in order
    frame     \* the most recent render request

vars == <<images, index, pc, op, effects, frame>>

----------------------------------------------------------------------------
(* Bounds of the model *)

\* longest initial image list
MaxLen == 3
\* length of the one long initial image list
LongLen == 11
\* largest step handed to increment/decrement when they are exercised directly
MaxStep == 5

\* largest source and viewport dimension of the exhaustive part of make_dst's inputs
MaxDim == 6
\* longest list handed to compute_skip_size and to runs of skips
MaxSkipLen == 100
\* longest run of consecutive skips in one direction
MaxSkips == 11

(* The paths the command line may supply: two files with the same file     *)
(* name in different folders, and one path that has no file name.          *)
Paths == {"a/x.png", "b/x.png", ".."}
NoPath == ""
DestFolder == "keep"

\* Path::file_name of the paths above (None is NoPath)
file_name(p) ==
    CASE p = "a/x.png" -> "x.png"
      [] p = "b/x.png" -> "x.png"
      [] OTHER -> NoPath

\* PathBuf::from(dest_folder).join(name)
join(folder, name) == folder \o "/" \o name

\* usize arithmetic is modulo 2^64 on the targets riv builds for; the model
\* keeps the wrap-around with a word the model checker's integers can hold.
\* Every operand of the model is below LongLen + MaxStep, so a wrapped
\* difference is, as in the source, larger than every index and every length.
UsizeModulus == 2^30

wrapping_sub(a, b) == (a - b + UsizeModulus) % UsizeModulus
wrapping_add(a, b) == (a + b) % UsizeModulus

\* every list of at most n paths
ListsUpTo(n) == UNION {[1..k -> Paths] : k \in 0..n}

\* a list of n paths long enough for compute_skip_size to exceed 1: a run of
\* each path, so that the lists Move and Delete can make of it stay few
LongList(n) ==
    [k \in 1..n |-> IF 3 * k <= n THEN "a/x.png"
                    ELSE IF 3 * k <= 2 * n THEN "b/x.png"
                    ELSE ".."]

\* the lists the command line supplies in this model
InitialLists == ListsUpTo(MaxLen) \union {LongList(LongLen)}

\* Vec::truncate(i) in the place of Vec::remove(i)
vec_truncate(v, i) == [k \in 1..i |-> v[k]]

\* Vec::remove(i) for an in-bounds 0-based i
vec_remove(v, i) == [k \in 1..(Len(v) - 1) |-> IF k <= i THEN v[k] ELSE v[k + 1]]

----------------------------------------------------------------------------
(* The outcomes of the external calls an operation may make *)

Env == [load  : BOOLEAN,                        \* load_texture succeeds
        draw  : BOOLEAN,                        \* canvas.copy succeeds
        mkdir : {"Ok", "AlreadyExists", "Err"}, \* create_dir_all
        fs    : BOOLEAN,                        \* copy / move_file / remove succeeds
        overflow_checks : BOOLEAN]              \* debug build (arithmetic overflow panics) or release (wraps)

\* the external calls arm `a` can reach; the outcomes of the others are fixed
EnvOf(a) ==
    {e \in Env :
        /\ a \notin {"ReRender", "Next", "Prev", "Move", "SkipForward", "SkipBack",
                     "Delete", "First", "Last"} => e.load /\ e.draw
        /\ a \notin {"Copy", "Move"} => e.mkdir = "Ok"
        /\ a \notin {"Copy", "Move", "Delete"} => e.fs
        /\ a \notin {"Next", "SkipForward"} => e.overflow_checks}

Call(name, arg, out) == [call |-> name, arg |-> arg, out |-> out]
OkErr(b) == IF b THEN "Ok" ELSE "Err"

\* what an operation leaves behind: the fields, its return value
\* ("Ok", "Err", or "Panic" when it unwinds) and the calls it made
Outcome(imgs, idx, ret, eff) == [images |-> imgs, index |-> idx, ret |-> ret, effects |-> eff]

----------------------------------------------------------------------------
(* compute_skip_size, lines 23-29 *)

chunks == 10

Max(a, b) == IF a >= b THEN a ELSE b

\* compute_skip_size without the `+ 1usize` of line 25
compute_skip_size_no_increment(imgs) == Max(1, Len(imgs) \div chunks)

\* compute_skip_size with a floor of `chunks` instead of 1 at line 28
compute_skip_size_floor_chunks(imgs) == Max(chunks, (Len(imgs) \div chunks) + 1)

compute_skip_size(imgs) == Max(1, (Len(imgs) \div chunks) + 1)

----------------------------------------------------------------------------
(* Program::render and render_blank, lines 86-113.  Neither touches images *)
(* or index; the value is the return value and the calls made.             *)

render_blank == [ret |-> "Ok",
                 effects |-> <<Call("clear", NoPath, "Ok"), Call("present", NoPath, "Ok")>>]

\* render without the is_empty guard of lines 87-89
render_unguarded(imgs, idx, env) ==
    IF ~(idx < Len(imgs))
        THEN [ret |-> "Panic", effects |-> <<>>]
    ELSE IF ~env.load
        THEN [ret |-> "Ok",
              effects |-> <<Call("load_texture", imgs[idx + 1], "Err"),
                            Call("eprintln", NoPath, "Ok")>>]
    ELSE IF ~env.draw
        THEN [ret |-> "Ok",
              effects |-> <<Call("load_texture", imgs[idx + 1], "Ok"),
                            Call("clear", NoPath, "Ok"),
                            Call("copy", imgs[idx + 1], "Err"),
                            Call("eprintln", NoPath, "Ok")>>]
    ELSE [ret |-> "Ok",
          effects |-> <<Call("load_texture", imgs[idx + 1], "Ok"),
                        Call("clear", NoPath, "Ok"),
                        Call("copy", imgs[idx + 1], "Ok"),
                        Call("present", NoPath, "Ok")>>]

render(imgs, idx, env) ==
    IF imgs = <<>> THEN render_blank
    ELSE IF ~(idx < Len(imgs))
        \* &self.images[self.index] is bounds-checked in every build
        THEN [ret |-> "Panic", effects |-> <<>>]
    ELSE IF ~env.load
        THEN [ret |-> "Ok",
              effects |-> <<Call("load_texture", imgs[idx + 1], "Err"),
                            Call("eprintln", NoPath, "Ok")>>]
    ELSE IF ~env.draw
        THEN [ret |-> "Ok",
              effects |-> <<Call("load_texture", imgs[idx + 1], "Ok"),
                            Call("clear", NoPath, "Ok"),
                            Call("copy", imgs[idx + 1], "Err"),
                            Call("eprintln", NoPath, "Ok")>>]
    ELSE [ret |-> "Ok",
          effects |-> <<Call("load_texture", imgs[idx + 1], "Ok"),
                        Call("clear", NoPath, "Ok"),
                        Call("copy", imgs[idx + 1], "Ok"),
                        Call("present", NoPath, "Ok")>>]

\* `self.render()` as the last statement of an operation that has already
\* made the calls `eff` and left the fields at (imgs, idx)
then_render(imgs, idx, eff, env) ==
    LET r == render(imgs, idx, env)
    IN  Outcome(imgs, idx, r.ret, eff \o r.effects)

----------------------------------------------------------------------------
(* Navigation, lines 115-180 *)

\* increment without the `len() == 1` half of the guard of line 116
increment_guard_empty_only(imgs, idx, step, env) ==
    IF imgs = <<>> THEN Outcome(imgs, idx, "Ok", <<>>)
    ELSE IF step > Len(imgs) /\ env.overflow_checks
        THEN Outcome(imgs, idx, "Panic", <<>>)
    ELSE IF idx < wrapping_sub(Len(imgs), step)
        THEN then_render(imgs, wrapping_add(idx, step), <<>>, env)
    ELSE then_render(imgs, Len(imgs) - 1, <<>>, env)

\* increment without the self.render() of line 126
increment_no_render(imgs, idx, step, env) ==
    IF imgs = <<>> \/ Len(imgs) = 1 THEN Outcome(imgs, idx, "Ok", <<>>)
    ELSE IF step > Len(imgs) /\ env.overflow_checks
        THEN Outcome(imgs, idx, "Panic", <<>>)
    ELSE IF idx < wrapping_sub(Len(imgs), step)
        THEN Outcome(imgs, wrapping_add(idx, step), "Ok", <<>>)
    ELSE Outcome(imgs, Len(imgs) - 1, "Ok", <<>>)

increment(imgs, idx, step, env) ==
    IF imgs = <<>> \/ Len(imgs) = 1 THEN Outcome(imgs, idx, "Ok", <<>>)
    ELSE IF step > Len(imgs) /\ env.overflow_checks
        \* `self.images.len() - step` overflows: a debug build panics here
        THEN Outcome(imgs, idx, "Panic", <<>>)
    ELSE IF idx < wrapping_sub(Len(imgs), step)
        THEN then_render(imgs, wrapping_add(idx, step), <<>>, env)
    ELSE then_render(imgs, Len(imgs) - 1, <<>>, env)

\* remove_image that steps back whenever the index is not 0
remove_image_step_back(imgs, idx, i) ==
    IF ~(i < Len(imgs))
        THEN Outcome(imgs, idx, "Panic", <<>>)
    ELSE IF idx # 0
        THEN Outcome(vec_remove(imgs, i), idx - 1, "Ok", <<>>)
        ELSE Outcome(vec_remove(imgs, i), idx, "Ok", <<>>)

\* remove_image without the adjustment of lines 140-142
remove_image_unadjusted(imgs, idx, i) ==
    IF ~(i < Len(imgs))
        THEN Outcome(imgs, idx, "Panic", <<>>)
        ELSE Outcome(vec_remove(imgs, i), idx, "Ok", <<>>)

remove_image(imgs, idx, i) ==
    IF ~(i < Len(imgs))
        \* Vec::remove panics past the bounds
        THEN Outcome(imgs, idx, "Panic", <<>>)
    ELSE LET rest == vec_remove(imgs, i)
         IN  IF i >= Len(rest) /\ idx # 0
                 THEN Outcome(rest, idx - 1, "Ok", <<>>)
                 ELSE Outcome(rest, idx, "Ok", <<>>)

\* decrement without the else branch of lines 149-152: the subtraction wraps
decrement_unclamped(imgs, idx, step, env) ==
    then_render(imgs, wrapping_sub(idx, step), <<>>, env)

decrement(imgs, idx, step, env) ==
    IF idx >= step
        THEN then_render(imgs, idx - step, <<>>, env)
        ELSE then_render(imgs, 0, <<>>, env)

\* skip_forward that advances by one image, as Next does
skip_forward_single(imgs, idx, env) == increment(imgs, idx, 1, env)

skip_forward(imgs, idx, env) == increment(imgs, idx, compute_skip_size(imgs), env)

skip_backward(imgs, idx, env) == decrement(imgs, idx, compute_skip_size(imgs), env)

first(imgs, idx, env) == then_render(imgs, 0, <<>>, env)

last(imgs, idx, env) ==
    IF imgs = <<>>
        THEN then_render(imgs, 0, <<>>, env)
        ELSE then_render(imgs, Len(imgs) - 1, <<>>, env)

----------------------------------------------------------------------------
(* The mutation protocol, lines 182-288 *)

\* the value is the Result: the new name, or "Err"; and the calls made
\* construct_dest_filepath without the AlreadyExists arm of line 186
construct_dest_filepath_strict(src_path, env) ==
    LET mk == <<Call("create_dir_all", DestFolder, env.mkdir)>>
    IN  IF env.mkdir # "Ok" THEN [ret |-> "Err", newname |-> NoPath, effects |-> mk]
        ELSE IF file_name(src_path) = NoPath
            THEN [ret |-> "Err", newname |-> NoPath, effects |-> mk]
        ELSE [ret |-> "Ok", newname |-> join(DestFolder, file_name(src_path)), effects |-> mk]

construct_dest_filepath(src_path, env) ==
    LET mk == <<Call("create_dir_all", DestFolder, env.mkdir)>>
    IN  IF env.mkdir = "Err" THEN [ret |-> "Err", newname |-> NoPath, effects |-> mk]
        ELSE IF file_name(src_path) = NoPath
            THEN [ret |-> "Err", newname |-> NoPath, effects |-> mk]
        ELSE [ret |-> "Ok", newname |-> join(DestFolder, file_name(src_path)), effects |-> mk]

\* copy_image that drops the copied image from the list, as move_image does
copy_image_consuming(imgs, idx, env) ==
    IF imgs = <<>> THEN Outcome(imgs, idx, "Err", <<>>)
    ELSE IF ~(idx < Len(imgs)) THEN Outcome(imgs, idx, "Panic", <<>>)
    ELSE LET filepath == imgs[idx + 1]
             dest == construct_dest_filepath(filepath, env)
             copied == dest.effects \o <<Call("copy_file", filepath, OkErr(env.fs))>>
         IN  IF dest.ret = "Err" THEN Outcome(imgs, idx, "Err", dest.effects)
             ELSE IF ~env.fs THEN Outcome(imgs, idx, "Err", copied)
             ELSE LET r == remove_image(imgs, idx, idx)
                  IN  Outcome(r.images, r.index, r.ret, copied)

copy_image(imgs, idx, env) ==
    IF imgs = <<>> THEN Outcome(imgs, idx, "Err", <<>>)
    ELSE IF ~(idx < Len(imgs))
        \* images.get(index) is None: unwrap_or_else panics
        THEN Outcome(imgs, idx, "Panic", <<>>)
    ELSE LET filepath == imgs[idx + 1]
             dest == construct_dest_filepath(filepath, env)
         IN  IF dest.ret = "Err" THEN Outcome(imgs, idx, "Err", dest.effects)
             ELSE Outcome(imgs, idx, OkErr(env.fs),
                          dest.effects \o <<Call("copy_file", filepath, OkErr(env.fs))>>)

\* move_image that renders before it forgets the image (lines 248 and 252 swapped)
move_image_render_first(imgs, idx, env) ==
    IF imgs = <<>> THEN Outcome(imgs, idx, "Err", <<>>)
    ELSE IF ~(idx < Len(imgs)) THEN Outcome(imgs, idx, "Panic", <<>>)
    ELSE LET current_imagepath == imgs[idx + 1]
             dest == construct_dest_filepath(current_imagepath, env)
             moved == dest.effects \o <<Call("move_file", current_imagepath, OkErr(env.fs))>>
         IN  IF dest.ret = "Err" THEN Outcome(imgs, idx, "Err", dest.effects)
             ELSE IF ~env.fs THEN Outcome(imgs, idx, "Err", moved)
             ELSE LET shown == then_render(imgs, idx, moved, env)
                      r == remove_image(imgs, idx, idx)
                  IN  Outcome(r.images, r.index, r.ret,
                              shown.effects \o <<Call("remove_image", current_imagepath, r.ret)>>)

\* move_image that ignores the result of move_file (lines 239-245 dropped)
move_image_unchecked(imgs, idx, env) ==
    IF imgs = <<>> THEN Outcome(imgs, idx, "Err", <<>>)
    ELSE IF ~(idx < Len(imgs)) THEN Outcome(imgs, idx, "Panic", <<>>)
    ELSE LET current_imagepath == imgs[idx + 1]
             dest == construct_dest_filepath(current_imagepath, env)
             moved == dest.effects \o <<Call("move_file", current_imagepath, OkErr(env.fs))>>
         IN  IF dest.ret = "Err" THEN Outcome(imgs, idx, "Err", dest.effects)
             ELSE LET r == remove_image(imgs, idx, idx)
                      removed == moved \o <<Call("remove_image", current_imagepath, r.ret)>>
                  IN  IF r.ret = "Panic" THEN Outcome(r.images, r.index, "Panic", removed)
                      ELSE then_render(r.images, r.index, removed, env)

move_image(imgs, idx, env) ==
    IF imgs = <<>> THEN Outcome(imgs, idx, "Err", <<>>)
    ELSE IF ~(idx < Len(imgs))
        \* assert!(self.index < self.images.len())
        THEN Outcome(imgs, idx, "Panic", <<>>)
    ELSE LET current_imagepath == imgs[idx + 1]
             dest == construct_dest_filepath(current_imagepath, env)
             moved == dest.effects \o <<Call("move_file", current_imagepath, OkErr(env.fs))>>
         IN  IF dest.ret = "Err" THEN Outcome(imgs, idx, "Err", dest.effects)
             ELSE IF ~env.fs THEN Outcome(imgs, idx, "Err", moved)
             ELSE LET r == remove_image(imgs, idx, idx)
                      removed == moved \o <<Call("remove_image", current_imagepath, r.ret)>>
                  IN  IF r.ret = "Panic" THEN Outcome(r.images, r.index, "Panic", removed)
                      ELSE then_render(r.images, r.index, removed, env)

\* delete_image that forgets the image before it removes the file
delete_image_forget_first(imgs, idx, env) ==
    IF imgs = <<>> THEN Outcome(imgs, idx, "Err", <<>>)
    ELSE IF ~(idx < Len(imgs)) THEN Outcome(imgs, idx, "Panic", <<>>)
    ELSE LET current_imagepath == imgs[idx + 1]
             r == remove_image(imgs, idx, idx)
             removed == <<Call("remove_image", current_imagepath, r.ret),
                          Call("remove", current_imagepath, OkErr(env.fs))>>
         IN  IF r.ret = "Panic" THEN Outcome(r.images, r.index, "Panic", <<>>)
             ELSE IF ~env.fs THEN Outcome(r.images, r.index, "Err", removed)
             ELSE then_render(r.images, r.index, removed, env)

\* delete_image without the is_empty guard of lines 258-260
delete_image_unguarded(imgs, idx, env) ==
    IF ~(idx < Len(imgs)) THEN Outcome(imgs, idx, "Panic", <<>>)
    ELSE LET current_imagepath == imgs[idx + 1]
             deleted == <<Call("remove", current_imagepath, OkErr(env.fs))>>
         IN  IF ~env.fs THEN Outcome(imgs, idx, "Err", deleted)
             ELSE LET r == remove_image(imgs, idx, idx)
                      removed == deleted \o <<Call("remove_image", current_imagepath, r.ret)>>
                  IN  IF r.ret = "Panic" THEN Outcome(r.images, r.index, "Panic", removed)
                      ELSE then_render(r.images, r.index, removed, env)

delete_image(imgs, idx, env) ==
    IF imgs = <<>> THEN Outcome(imgs, idx, "Err", <<>>)
    ELSE IF ~(idx < Len(imgs))
        \* assert!(self.index < self.images.len())
        THEN Outcome(imgs, idx, "Panic", <<>>)
    ELSE LET current_imagepath == imgs[idx + 1]
             deleted == <<Call("remove", current_imagepath, OkErr(env.fs))>>
         IN  IF ~env.fs THEN Outcome(imgs, idx, "Err", deleted)
             ELSE LET r == remove_image(imgs, idx, idx)
                      removed == deleted \o <<Call("remove_image", current_imagepath, r.ret)>>
                  IN  IF r.ret = "Panic" THEN Outcome(r.images, r.index, "Panic", removed)
                      ELSE then_render(r.images, r.index, removed, env)

----------------------------------------------------------------------------
(* Program::run, lines 291-324 *)

Actions == {"Quit", "ReRender", "Next", "Prev", "Copy", "Move", "SkipForward",
            "SkipBack", "Delete", "First", "Last", "Noop"}

\* the arms of the match whose Err is printed instead of returned with `?`
Reported == {"Copy", "Move", "Delete"}

\* the arm of the match that Action `a` selects
dispatch(a, imgs, idx, env) ==
    CASE a = "ReRender"    -> then_render(imgs, idx, <<>>, env)
      [] a = "Next"        -> increment(imgs, idx, 1, env)
      [] a = "Prev"        -> decrement(imgs, idx, 1, env)
      [] a = "Copy"        -> copy_image(imgs, idx, env)
      [] a = "Move"        -> move_image(imgs, idx, env)
      [] a = "SkipForward" -> skip_forward(imgs, idx, env)
      [] a = "SkipBack"    -> skip_backward(imgs, idx, env)
      [] a = "Delete"      -> delete_image(imgs, idx, env)
      [] a = "First"       -> first(imgs, idx, env)
      [] a = "Last"        -> last(imgs, idx, env)
      [] OTHER             -> Outcome(imgs, idx, "Ok", <<>>)   \* Noop; Quit breaks before any call

\* every arm written with `?`, the arms of Copy, Move and Delete included
after_arm_propagating(a, ret) ==
    IF ret = "Panic" THEN "panicked"
    ELSE IF a = "Quit" THEN "returned_ok"
    ELSE IF ret = "Err" THEN "returned_err"
    ELSE "loop"

\* where `run` stands after an arm returned `ret`
after_arm(a, ret) ==
    IF ret = "Panic" THEN "panicked"
    ELSE IF a = "Quit" THEN "returned_ok"
    ELSE IF ret = "Err" /\ a \notin Reported THEN "returned_err"
    ELSE "loop"

\* the calls of an arm, with the eprintln of a reported Err
arm_effects(a, r) ==
    IF r.ret = "Err" /\ a \in Reported
        THEN r.effects \o <<Call("eprintln", NoPath, "Ok")>>
        ELSE r.effects

\* the render request among the calls `eff`, or the one before them
frame_after(f, eff) ==
    IF \E k \in 1..Len(eff) : eff[k].call = "load_texture"
        THEN LET k == CHOOSE j \in 1..Len(eff) : eff[j].call = "load_texture"
             IN  [kind |-> "image", path |-> eff[k].arg]
    ELSE IF \E k \in 1..Len(eff) : eff[k].call = "clear"
        THEN [kind |-> "blank", path |-> NoPath]
    ELSE f

Record(name, arg, ret) ==
    [name |-> name, arg |-> arg, images |-> images, index |-> index, frame |-> frame,
     ret |-> ret]

\* the fields and the history after an operation with outcome r
Commit(name, arg, r, eff, to) ==
    /\ images' = r.images
    /\ index' = r.index
    /\ effects' = eff
    /\ frame' = frame_after(frame, eff)
    /\ op' = Record(name, arg, r.ret)
    /\ pc' = to

\* `self.render()?` before the loop
Start ==
    /\ pc = "start"
    /\ \E env \in EnvOf("ReRender") :
         LET r == then_render(images, index, <<>>, env)
         IN  Commit("render", 0, r, r.effects, after_arm("ReRender", r.ret))

\* one polled event, translated to Action a, through the match
Arm(a, env) ==
    LET r == dispatch(a, images, index, env)
    IN  Commit(a, 0, r, arm_effects(a, r), after_arm(a, r.ret))

DoQuit ==
    /\ pc = "loop"
    /\ \E env \in EnvOf("Quit") : Arm("Quit", env)

DoReRender ==
    /\ pc = "loop"
    /\ \E env \in EnvOf("ReRender") : Arm("ReRender", env)

DoNext ==
    /\ pc = "loop"
    /\ \E env \in EnvOf("Next") : Arm("Next", env)

DoPrev ==
    /\ pc = "loop"
    /\ \E env \in EnvOf("Prev") : Arm("Prev", env)

DoCopy ==
    /\ pc = "loop"
    /\ \E env \in EnvOf("Copy") : Arm("Copy", env)

DoMove ==
    /\ pc = "loop"
    /\ \E env \in EnvOf("Move") : Arm("Move", env)

DoSkipForward ==
    /\ pc = "loop"
    /\ \E env \in EnvOf("SkipForward") : Arm("SkipForward", env)

DoSkipBack ==
    /\ pc = "loop"
    /\ \E env \in EnvOf("SkipBack") : Arm("SkipBack", env)

DoDelete ==
    /\ pc = "loop"
    /\ \E env \in EnvOf("Delete") : Arm("Delete", env)

DoFirst ==
    /\ pc = "loop"
    /\ \E env \in EnvOf("First") : Arm("First", env)

DoLast ==
    /\ pc = "loop"
    /\ \E env \in EnvOf("Last") : Arm("Last", env)

DoNoop ==
    /\ pc = "loop"
    /\ \E env \in EnvOf("Noop") : Arm("Noop", env)

\* `self.sdl_context.event_pump()?` returning Err
EventPumpErr ==
    /\ pc = "loop"
    /\ Commit("event_pump", 0, Outcome(images, index, "Err", <<>>),
              <<Call("event_pump", NoPath, "Err")>>, "returned_err")

\* Program::init, lines 46-82: the files of the command line, index 0
Init ==
    /\ images \in InitialLists
    /\ index = 0
    /\ pc = "start"
    /\ effects = <<>>
    /\ frame = [kind |-> "none", path |-> NoPath]
    /\ op = Record("init", 0, "Ok")

Next ==
    \/ Start
    \/ DoQuit
    \/ DoReRender
    \/ DoNext
    \/ DoPrev
    \/ DoCopy
    \/ DoMove
    \/ DoSkipForward
    \/ DoSkipBack
    \/ DoDelete
    \/ DoFirst
    \/ DoLast
    \/ DoNoop
    \/ EventPumpErr

Spec == Init /\ [][Next]_vars

----------------------------------------------------------------------------
(* increment, decrement and remove_image called directly, once, on every   *)
(* list and every in-bounds index, with any step and any position          *)

after_call(ret) == IF ret = "Panic" THEN "panicked" ELSE "unit_done"

UnitIncrement ==
    /\ pc = "unit"
    /\ \E step \in 1..MaxStep, env \in EnvOf("Next") :
         LET r == increment(images, index, step, env)
         IN  Commit("increment", step, r, r.effects, after_call(r.ret))

UnitDecrement ==
    /\ pc = "unit"
    /\ \E step \in 1..MaxStep, env \in EnvOf("Prev") :
         LET r == decrement(images, index, step, env)
         IN  Commit("decrement", step, r, r.effects, after_call(r.ret))

UnitRemoveImage ==
    /\ pc = "unit"
    /\ \E i \in 0..LongLen :
         LET r == remove_image(images, index, i)
         IN  Commit("remove_image", i, r, r.effects, after_call(r.ret))

UnitInit ==
    /\ images \in InitialLists
    /\ index \in 0..LongLen
    /\ IF images = <<>> THEN index = 0 ELSE index < Len(images)
    /\ pc = "unit"
    /\ effects = <<>>
    /\ frame = [kind |-> "none", path |-> NoPath]
    /\ op = Record("init", 0, "Ok")

UnitNext ==
    \/ UnitIncrement
    \/ UnitDecrement
    \/ UnitRemoveImage

UnitSpec == UnitInit /\ [][UnitNext]_vars

----------------------------------------------------------------------------
(* make_dst, lines 329-358.                                                 *)
(*                                                                          *)
(* The source computes in f32.  A positive f32 is modelled exactly as       *)
(* [m, e], the value m * 2^e with 2^23 <= m < 2^24 (24 significant bits);   *)
(* zero is [0, 0].  Every operation rounds to nearest, ties to even, as     *)
(* IEEE 754 does.  The dimensions of the model are far from the exponent    *)
(* limits of f32, so no infinity, NaN or subnormal arises.                  *)

MantissaBits == 24
I32Max == 2147483647

Top == 2^MantissaBits          \* mantissas are below Top
Low == 2^(MantissaBits - 1)    \* and, normalized, at least Low

Cmp(a, b) == IF a > b THEN 1 ELSE IF a = b THEN 0 ELSE -1

\* q * 2^e with a discarded remainder that compares `c` to one half of the
\* last place: round to nearest, ties to even, and renormalize
f32_pack(q, e, c) ==
    LET q1 == IF c > 0 \/ (c = 0 /\ q % 2 = 1) THEN q + 1 ELSE q
    IN  IF q1 = Top THEN [m |-> Low, e |-> e + 1] ELSE [m |-> q1, e |-> e]

RECURSIVE f32_norm(_, _)
f32_norm(m, e) == IF m >= Low THEN [m |-> m, e |-> e] ELSE f32_norm(2 * m, e - 1)

RECURSIVE BitsOver(_)
BitsOver(n) == IF n < Top THEN 0 ELSE 1 + BitsOver(n \div 2)

\* `n as f32` for an integer 0 <= n < 2^31
f32_from(n) ==
    IF n = 0 THEN [m |-> 0, e |-> 0]
    ELSE IF n < Top THEN f32_norm(n, 0)
    ELSE LET k == BitsOver(n)
         IN  f32_pack(n \div 2^k, k, Cmp(n % 2^k, 2^(k - 1)))

\* `n as f32` for the u32 that a - b wraps to when a < b, 2^32 - (b - a)
f32_from_wrapped(a, b) ==
    LET k == b - a
        c == k \div 256
        d == k % 256
    IN  IF d = 0 THEN f32_pack(Top - c, 8, -1)
                 ELSE f32_pack(Top - c - 1, 8, Cmp(256 - d, 128))

\* k more quotient bits of r / d, for r < d: <<quotient, remainder>>
RECURSIVE LongDiv(_, _, _, _)
LongDiv(r, d, q, k) ==
    IF k = 0 THEN <<q, r>>
    ELSE IF 2 * r >= d THEN LongDiv(2 * r - d, d, 2 * q + 1, k - 1)
    ELSE LongDiv(2 * r, d, 2 * q, k - 1)

\* x / y, y nonzero
f32_div(x, y) ==
    IF x.m = 0 THEN x
    ELSE IF x.m >= y.m
        THEN LET qr == LongDiv(x.m - y.m, y.m, 1, MantissaBits - 1)
             IN  f32_pack(qr[1], x.e - y.e - (MantissaBits - 1), Cmp(2 * qr[2], y.m))
        ELSE LET qr == LongDiv(x.m, y.m, 0, MantissaBits)
             IN  f32_pack(qr[1], x.e - y.e - MantissaBits, Cmp(2 * qr[2], y.m))

\* x * y: the 48-bit product of the mantissas, in halves of 12 bits
f32_mul(x, y) ==
    IF x.m = 0 \/ y.m = 0 THEN [m |-> 0, e |-> 0]
    ELSE LET h == 2^12
             a1 == x.m \div h
             a0 == x.m % h
             b1 == y.m \div h
             b0 == y.m % h
             mid == a1 * b0 + a0 * b1
             lowsum == (mid % h) * h + a0 * b0
             H == a1 * b1 + (mid \div h) + (lowsum \div Top)
             L == lowsum % Top
         IN  IF H >= Low
                 THEN f32_pack(H, x.e + y.e + MantissaBits, Cmp(L, Low))
                 ELSE f32_pack(2 * H + (L \div Low), x.e + y.e + MantissaBits - 1,
                               Cmp(L % Low, Low \div 2))

\* x / 2.0
f32_half(x) == IF x.m = 0 THEN x ELSE [m |-> x.m, e |-> x.e - 1]

\* x > y, for x, y >= 0
f32_gt(x, y) ==
    IF x.m = 0 THEN FALSE
    ELSE IF y.m = 0 THEN TRUE
    ELSE x.e > y.e \/ (x.e = y.e /\ x.m > y.m)

\* `x as u32` and `x as i32` for x >= 0: toward zero, saturating (the
\* dimensions of the model keep `as u32` below 2^31)
f32_trunc(x) ==
    IF x.e >= 0 THEN x.m * 2^x.e
    ELSE IF -x.e >= MantissaBits THEN 0
    ELSE x.m \div 2^(-x.e)

f32_as_u32(x) == f32_trunc(x)

f32_as_i32(x) == IF x.m # 0 /\ x.e >= 8 THEN I32Max ELSE f32_trunc(x)

\* sdl2::rect::Rect::new: a size of 0 becomes 1, sizes and positions are
\* clamped to i32::MAX / 2
RectMax == I32Max \div 2

clamp_size(v) == IF v = 0 THEN 1 ELSE IF v > RectMax THEN RectMax ELSE v

clamp_position(v) == IF v > RectMax THEN RectMax ELSE v

Rect_new(x, y, width, height) ==
    [x |-> clamp_position(x), y |-> clamp_position(y),
     w |-> clamp_size(width), h |-> clamp_size(height)]

NoRect == [x |-> 0, y |-> 0, w |-> 0, h |-> 0]

\* `((a - b) as f32 / 2.0) as i32` on u32 a, b: the subtraction overflows when
\* a < b, which panics in a debug build and wraps in a release build
centre_offset(a, b, overflow_checks) ==
    IF a >= b THEN [ret |-> "Ok", val |-> f32_as_i32(f32_half(f32_from(a - b)))]
    ELSE IF overflow_checks THEN [ret |-> "Panic", val |-> 0]
    ELSE [ret |-> "Ok", val |-> f32_as_i32(f32_half(f32_from_wrapped(a, b)))]

full_rect(src_x, src_y, dst_x, dst_y, overflow_checks) ==
    LET y == centre_offset(dst_y, src_y, overflow_checks)
        x == centre_offset(dst_x, src_x, overflow_checks)
    IN  IF y.ret = "Panic" \/ x.ret = "Panic" THEN [ret |-> "Panic", rect |-> NoRect]
        ELSE [ret |-> "Ok", rect |-> Rect_new(x.val, y.val, src_x, src_y)]

fit_x_rect(src_x, src_y, dst_x, dst_y, overflow_checks) ==
    LET height == f32_as_u32(f32_mul(f32_div(f32_from(src_y), f32_from(src_x)), f32_from(dst_x)))
        y == centre_offset(dst_y, height, overflow_checks)
    IN  IF y.ret = "Panic" THEN [ret |-> "Panic", rect |-> NoRect]
        ELSE [ret |-> "Ok", rect |-> Rect_new(0, y.val, dst_x, height)]

fit_y_rect(src_x, src_y, dst_x, dst_y, overflow_checks) ==
    LET width == f32_as_u32(f32_mul(f32_div(f32_from(src_x), f32_from(src_y)), f32_from(dst_y)))
        x == centre_offset(dst_x, width, overflow_checks)
    IN  IF x.ret = "Panic" THEN [ret |-> "Panic", rect |-> NoRect]
        ELSE [ret |-> "Ok", rect |-> Rect_new(x.val, 0, width, dst_y)]

make_dst(src_x, src_y, dst_x, dst_y, overflow_checks) ==
    IF src_x < dst_x /\ src_y < dst_y
        THEN full_rect(src_x, src_y, dst_x, dst_y, overflow_checks)
    ELSE IF f32_gt(f32_div(f32_from(src_x), f32_from(src_y)),
                   f32_div(f32_from(dst_x), f32_from(dst_y)))
        THEN fit_x_rect(src_x, src_y, dst_x, dst_y, overflow_checks)
    ELSE fit_y_rect(src_x, src_y, dst_x, dst_y, overflow_checks)

(* make_dst called once on every tuple of dimensions up to MaxDim, on the   *)
(* dimensions of the two worked examples, and on dimensions just above      *)
(* 2^24, the first integers that f32 cannot all represent.  op.arg is       *)
(* <<src_x, src_y, dst_x, dst_y>>; frame.rect is the Rect returned.         *)

GeomInputs ==
    ((1..MaxDim) \X (1..MaxDim) \X (1..MaxDim) \X (1..MaxDim))
        \union {<<100, 50, 1000, 1000>>, <<2000, 1000, 800, 600>>,
                <<1000, 1, 100, 100>>, <<1920, 1080, 1920, 1080>>}
        \union {<<Top + a, 1, Top + b, 1>> : a, b \in 0..4}

MakeDst ==
    /\ pc = "geom"
    /\ \E overflow_checks \in BOOLEAN :
         LET r == make_dst(op.arg[1], op.arg[2], op.arg[3], op.arg[4], overflow_checks)
         IN  /\ frame' = [kind |-> "rect", path |-> NoPath, rect |-> r.rect]
             /\ op' = Record("make_dst", op.arg, r.ret)
             /\ pc' = IF r.ret = "Panic" THEN "panicked" ELSE "geom_done"
    /\ UNCHANGED <<images, index, effects>>

GeomInit ==
    /\ images = <<>>
    /\ index = 0
    /\ pc = "geom"
    /\ effects = <<>>
    /\ frame = [kind |-> "none", path |-> NoPath]
    /\ \E d \in GeomInputs : op = Record("input", d, "Ok")

GeomNext == MakeDst

GeomSpec == GeomInit /\ [][GeomNext]_vars

----------------------------------------------------------------------------
(* compute_skip_size on lists of every length up to MaxSkipLen, and runs of *)
(* skip_forward or of skip_backward from every in-bounds index.  op.arg is  *)
(* the skip size computed, or the number of skips of the run so far.        *)

SkipSize ==
    /\ pc = "skip"
    /\ Commit("compute_skip_size", compute_skip_size(images),
              Outcome(images, index, "Ok", <<>>), <<>>, "sized")

RunSkipForward ==
    /\ pc \in {"skip", "forward"}
    /\ LET done == IF pc = "skip" THEN 0 ELSE op.arg
       IN  /\ done < MaxSkips
           /\ \E env \in EnvOf("SkipForward") :
                LET r == skip_forward(images, index, env)
                IN  Commit("skip_forward", done + 1, r, r.effects,
                           IF r.ret = "Panic" THEN "panicked" ELSE "forward")

RunSkipBack ==
    /\ pc \in {"skip", "back"}
    /\ LET done == IF pc = "skip" THEN 0 ELSE op.arg
       IN  /\ done < MaxSkips
           /\ \E env \in EnvOf("SkipBack") :
                LET r == skip_backward(images, index, env)
                IN  Commit("skip_backward", done + 1, r, r.effects,
                           IF r.ret = "Panic" THEN "panicked" ELSE "back")

SkipInit ==
    /\ images \in {LongList(n) : n \in 0..MaxSkipLen}
    /\ index \in 0..MaxSkipLen
    /\ IF images = <<>> THEN index = 0 ELSE index < Len(images)
    /\ pc = "skip"
    /\ effects = <<>>
    /\ frame = [kind |-> "none", path |-> NoPath]
    /\ op = Record("init", 0, "Ok")

SkipNext ==
    \/ SkipSize
    \/ RunSkipForward
    \/ RunSkipBack

SkipSpec == SkipInit /\ [][SkipNext]_vars

----------------------------------------------------------------------------
(* Properties *)

InBounds(imgs, idx) == IF imgs = <<>> THEN idx = 0 ELSE idx >= 0 /\ idx < Len(imgs)

Ended == pc \in {"returned_ok", "returned_err", "panicked"}

\* the calls among eff that satisfy Test, in order
Made(eff, Test(_)) == SelectSeq(eff, Test)

IsRenderCall(c) == c.call \in {"load_texture", "clear", "copy", "present"}
IsFileCall(c) == c.call \in {"move_file", "remove"}
RenderCalls == Made(effects, IsRenderCall)

FileCallFailed == \E k \in 1..Len(effects) : IsFileCall(effects[k]) /\ effects[k].out = "Err"
LoadFailed == \E k \in 1..Len(effects) : effects[k].call = "load_texture" /\ effects[k].out = "Err"

\* C1: in every state of the event loop, whatever the actions dispatched and
\* whatever the filesystem answered, index is 0 when images is empty and below
\* len(images) otherwise, and no assertion or bounds check has failed.
C1_IndexInBounds ==
    /\ InBounds(images, index)
    /\ pc # "panicked"

\* C1 witness: a Move or Delete removed the last of several images, and the
\* index moved back with it.
C1_Witness ==
    /\ op.name \in {"Move", "Delete"}
    /\ op.ret = "Ok"
    /\ Len(op.images) >= 2
    /\ op.index = Len(op.images) - 1
    /\ index = op.index - 1

\* C2: remove_image(i) on a non-empty list with an in-bounds index and ANY
\* in-bounds position i leaves index below len(images), or at 0 when the list
\* became empty.
C2_RemoveAnyPositionInBounds ==
    (op.name = "remove_image" /\ op.arg < Len(op.images))
        => /\ pc # "panicked"
           /\ InBounds(images, index)

\* C3: increment(step) on a list of N >= 2 images, with an in-bounds index and
\* any step >= 1, steps larger than N included, gives index + step when
\* index < N - step and N - 1 otherwise, and so never an index >= N.
C3_IncrementClamps ==
    (op.name = "increment" /\ Len(op.images) >= 2)
        => /\ pc # "panicked"
           /\ index < Len(images)
           /\ index = IF op.index < Len(op.images) - op.arg
                          THEN op.index + op.arg
                          ELSE Len(op.images) - 1

\* C4: decrement(step) on any list, the empty one included, with an in-bounds
\* index and any step >= 1 gives index - step when index >= step and 0
\* otherwise, never a negative (wrapped) index, and leaves images unchanged.
C4_DecrementClamps ==
    op.name = "decrement"
        => /\ pc # "panicked"
           /\ index >= 0
           /\ InBounds(images, index)
           /\ index = IF op.index >= op.arg THEN op.index - op.arg ELSE 0
           /\ images = op.images

\* C4 witness: a decrement by more than the index, from an index above 0.
C4_Witness ==
    /\ op.name = "decrement"
    /\ op.index > 0
    /\ op.arg > op.index
    /\ index = 0
    /\ pc = "unit_done"

\* C5: when move_file (Move) or remove (Delete) fails, images and index are
\* what they were before the call and the call returns Err.
C5_FailedFileCallChangesNothing ==
    (op.name \in {"Move", "Delete"} /\ FileCallFailed)
        => /\ images = op.images
           /\ index = op.index
           /\ op.ret = "Err"

\* C5 witness: a Move whose move_file failed, on an image that is not the first.
C5_Witness ==
    /\ op.name = "Move"
    /\ op.index > 0
    /\ \E k \in 1..Len(effects) : effects[k].call = "move_file" /\ effects[k].out = "Err"

\* C6: Move and Delete forget an image only after the file call on that same
\* path has succeeded, the image forgotten is the one that was at index, and
\* nothing else ever shortens or changes the list.
C6_FileCallBeforeRemoval ==
    /\ \A k \in 1..Len(effects) :
         effects[k].call = "remove_image"
             => /\ op.name \in {"Move", "Delete"}
                /\ effects[k].arg = op.images[op.index + 1]
                /\ \E j \in 1..(k - 1) :
                     /\ IsFileCall(effects[j])
                     /\ effects[j].out = "Ok"
                     /\ effects[j].arg = effects[k].arg
    /\ (op.name \in {"Move", "Delete"} /\ op.ret = "Ok")
           => images = vec_remove(op.images, op.index)
    /\ images # op.images
           => /\ op.name \in {"Move", "Delete"}
              /\ \E k \in 1..Len(effects) : effects[k].call = "remove_image"

\* C6 witness: a Delete that succeeded on the middle image of three.
C6_Witness ==
    /\ op.name = "Delete"
    /\ op.ret = "Ok"
    /\ Len(op.images) = 3
    /\ op.index = 1
    /\ Len(images) = 2

\* C7: Copy leaves images and index as they were, whether create_dir_all and
\* the copy succeed or fail.
C7_CopyChangesNothing ==
    op.name = "Copy"
        => /\ images = op.images
           /\ index = op.index

\* C7 witness: a Copy of an image whose file copy succeeded.
C7_Witness ==
    /\ op.name = "Copy"
    /\ op.ret = "Ok"
    /\ \E k \in 1..Len(effects) : effects[k].call = "copy_file" /\ effects[k].out = "Ok"

\* C8: Copy, Move and Delete on an empty list return Err, leave the list empty
\* and the index at 0, and do not panic: the loop goes on.
C8_EmptySetOperationsFail ==
    (op.name \in {"Copy", "Move", "Delete"} /\ op.images = <<>>)
        => /\ op.ret = "Err"
           /\ images = <<>>
           /\ index = 0
           /\ pc = "loop"

\* C8 witness: a Delete dispatched on the empty list.
C8_Witness ==
    /\ op.name = "Delete"
    /\ op.images = <<>>
    /\ op.ret = "Err"

\* C9: a render on an empty list clears and presents and loads nothing; a
\* render on a non-empty list starts by loading exactly images[index], and
\* index is in bounds in every state.
C9_RenderRequest ==
    /\ pc # "panicked"
    /\ InBounds(images, index)
    /\ RenderCalls # <<>>
           => IF images = <<>>
                  THEN RenderCalls = <<Call("clear", NoPath, "Ok"), Call("present", NoPath, "Ok")>>
                  ELSE /\ RenderCalls[1].call = "load_texture"
                       /\ RenderCalls[1].arg = images[index + 1]
                       /\ \A k \in 2..Len(RenderCalls) : RenderCalls[k].call # "load_texture"
    /\ op.name \in {"render", "ReRender", "Prev", "SkipBack", "First", "Last"}
           => RenderCalls # <<>>

\* C9 witness: the blank frame after the only image was moved away.
C9_Witness ==
    /\ images = <<>>
    /\ op.name = "Move"
    /\ op.ret = "Ok"
    /\ RenderCalls = <<Call("clear", NoPath, "Ok"), Call("present", NoPath, "Ok")>>

\* what a failed Copy, Move or Delete, or a failed image load, leaves behind:
\* the loop still running, every Action still dispatchable, the index where
\* the operation would have put it had nothing failed
FailuresKeepLooping ==
    /\ (op.name \in Reported /\ op.ret = "Err")
           => /\ pc = "loop"
              /\ index = op.index
              /\ images = op.images
              /\ ENABLED DoNext
    /\ (op.name \in Actions \union {"render"} /\ LoadFailed)
           => /\ pc = "loop"
              /\ op.name \in {"render", "ReRender"} => index = op.index
              /\ ENABLED DoNext

\* C10 as stated: run ends only when Quit is dispatched; a failed Copy, Move or
\* Delete and a failed image load never end it and never move the index.
C10_OnlyQuitEndsLoop ==
    /\ Ended => op.name = "Quit"
    /\ FailuresKeepLooping

\* C10 amended: run ends only when Quit is dispatched or event_pump() returns
\* Err (run then returns that Err); a failed Copy, Move or Delete and a failed
\* image load never end it and never move the index.
C10_QuitOrEventPumpEndsLoop ==
    /\ Ended => \/ op.name = "Quit" /\ pc = "returned_ok"
                \/ op.name = "event_pump" /\ pc = "returned_err"
    /\ FailuresKeepLooping

\* C10 witness: the loop is still running after a Delete whose file removal failed.
C10_Witness ==
    /\ op.name = "Delete"
    /\ op.ret = "Err"
    /\ FileCallFailed
    /\ pc = "loop"

\* C11: compute_skip_size of a list of n images is max(1, floor(n / 10) + 1):
\* at least 1, non-decreasing in n, and 1, 1, 2 and 11 for n = 0, 9, 10 and 100.
C11_SkipSize ==
    op.name = "compute_skip_size"
        => LET n == Len(images)
               s == op.arg
           IN  /\ s >= 1
               /\ 10 * (s - 1) <= n
               /\ n < 10 * s
               /\ n = 0 => s = 1
               /\ n = 9 => s = 1
               /\ n = 10 => s = 2
               /\ n = 100 => s = 11
               /\ n >= 1 => compute_skip_size(SubSeq(images, 1, n - 1)) <= s

\* C11 witness: the skip size of a list of 100 images is 11.
C11_Witness ==
    /\ op.name = "compute_skip_size"
    /\ Len(images) = 100
    /\ op.arg = 11

\* C13: remove_image(i) with i = index removes exactly the element at i and
\* keeps the others in order; index drops by 1 exactly when i >= the new
\* length and index # 0, so after removing a non-last element index names its
\* former successor, and after removing the last it names the new last.
C13_RemoveCurrent ==
    (op.name = "remove_image" /\ op.arg = op.index /\ op.index < Len(op.images))
        => LET i == op.arg
               n == Len(op.images)
           IN  /\ pc = "unit_done"
               /\ Len(images) = n - 1
               /\ \A k \in 1..i : images[k] = op.images[k]
               /\ \A k \in (i + 1)..(n - 1) : images[k] = op.images[k + 1]
               /\ index = IF i >= n - 1 /\ op.index # 0 THEN op.index - 1 ELSE op.index
               /\ i < n - 1 => index = i /\ images[index + 1] = op.images[i + 2]
               /\ (i = n - 1 /\ n >= 2) => index = n - 2 /\ images[index + 1] = op.images[n - 1]
               /\ (op.images = <<"a/x.png", "b/x.png", "..">> /\ i = 0)
                      => images = <<"b/x.png", "..">> /\ index = 0
               /\ (op.images = <<"a/x.png", "b/x.png", "..">> /\ i = 2)
                      => images = <<"a/x.png", "b/x.png">> /\ index = 1

\* C13 witness: the last of three distinct images removed, index from 2 to 1.
C13_Witness ==
    /\ op.name = "remove_image"
    /\ op.images = <<"a/x.png", "b/x.png", "..">>
    /\ op.arg = 2
    /\ op.index = 2
    /\ images = <<"a/x.png", "b/x.png">>
    /\ index = 1

\* C14: increment(step) on a list of 0 or 1 images changes neither images nor
\* index and requests no render, for every step >= 1.
C14_IncrementNoOp ==
    (op.name = "increment" /\ Len(op.images) <= 1)
        => /\ pc = "unit_done"
           /\ images = op.images
           /\ index = op.index
           /\ effects = <<>>
           /\ frame = op.frame

\* C14 witness: increment by more than the length on a list of one image.
C14_Witness ==
    /\ op.name = "increment"
    /\ Len(op.images) = 1
    /\ op.arg > 1
    /\ pc = "unit_done"

FileCallSucceeded == \E k \in 1..Len(effects) : IsFileCall(effects[k]) /\ effects[k].out = "Ok"

\* the render request that fits the fields as they are now
FrameOfState ==
    IF images = <<>>
        THEN [kind |-> "blank", path |-> NoPath]
        ELSE [kind |-> "image", path |-> images[index + 1]]

\* C15: Move and Delete request a render exactly when their file call
\* succeeded; the request comes after the removal and is for the new list and
\* index: the image now at index, or a blank frame when none is left.
C15_RenderIffFileCallSucceeded ==
    op.name \in {"Move", "Delete"}
        => /\ RenderCalls # <<>> <=> FileCallSucceeded
           /\ RenderCalls = <<>> => frame = op.frame
           /\ RenderCalls # <<>>
                  => /\ frame = FrameOfState
                     /\ \E k \in 1..Len(effects) :
                          /\ effects[k].call = "remove_image"
                          /\ \A j \in 1..Len(effects) : IsRenderCall(effects[j]) => j > k
                     /\ images = <<>> => RenderCalls = render_blank.effects
                     /\ images # <<>> => RenderCalls[1] \in
                            {Call("load_texture", images[index + 1], out) : out \in {"Ok", "Err"}}

\* C15 witness: a Delete of the first of two different images shows the other one.
C15_Witness ==
    /\ op.name = "Delete"
    /\ op.ret = "Ok"
    /\ op.images = <<"a/x.png", "b/x.png">>
    /\ op.index = 0
    /\ frame = [kind |-> "image", path |-> "b/x.png"]

IsDestFileCall(c) == c.call \in {"copy_file", "move_file"}

\* C16: Copy and Move call create_dir_all before the file call; AlreadyExists
\* counts as success; any other Err makes them return Err with no file call
\* and with images and index unchanged.  Delete never calls create_dir_all.
C16_DestFolderCreation ==
    /\ (op.name \in {"Copy", "Move"} /\ op.images # <<>>)
           => /\ Len(effects) >= 1
              /\ effects[1].call = "create_dir_all"
              /\ \A k \in 1..Len(effects) : IsDestFileCall(effects[k]) => k > 1
              /\ effects[1].out = "Err"
                     => /\ op.ret = "Err"
                        /\ \A k \in 1..Len(effects) : ~IsDestFileCall(effects[k])
                        /\ images = op.images
                        /\ index = op.index
              /\ (effects[1].out \in {"Ok", "AlreadyExists"}
                      /\ file_name(op.images[op.index + 1]) # NoPath)
                     => /\ Len(effects) >= 2
                        /\ IsDestFileCall(effects[2])
                        /\ op.ret = effects[2].out
    /\ op.name = "Delete"
           => \A k \in 1..Len(effects) : effects[k].call # "create_dir_all"

\* C16 witness: a Move that went through although create_dir_all said AlreadyExists.
C16_Witness ==
    /\ op.name = "Move"
    /\ op.ret = "Ok"
    /\ effects[1] = Call("create_dir_all", DestFolder, "AlreadyExists")
    /\ Len(images) = Len(op.images) - 1

\* the index increment leaves, computed in the integers
IncrementTarget(n, idx, step) == IF idx < n - step THEN idx + step ELSE n - 1

\* C17: in every state of the event loop with at least 2 images, the steps of
\* Next (1) and of SkipForward (compute_skip_size) are at most len, so
\* `len - step` in increment never underflows: no panic, no wrapped index.
C17_StepWithinLength ==
    /\ pc # "panicked"
    /\ Len(images) >= 2 => 1 <= Len(images) /\ compute_skip_size(images) <= Len(images)
    /\ (op.name = "Next" /\ Len(op.images) >= 2)
           => index = IncrementTarget(Len(op.images), op.index, 1)
    /\ (op.name = "SkipForward" /\ Len(op.images) >= 2)
           => /\ compute_skip_size(op.images) <= Len(op.images)
              /\ index = IncrementTarget(Len(op.images), op.index, compute_skip_size(op.images))

\* C17 witness: a SkipForward by 2 on a list of 10 images.
C17_Witness ==
    /\ op.name = "SkipForward"
    /\ Len(op.images) = 10
    /\ compute_skip_size(op.images) = 2
    /\ index = op.index + 2

\* C18: on a list of at least 2 images skip_forward moves the index up
\* whenever it is not on the last image and skip_backward moves it down
\* whenever it is not on the first; 10 consecutive skips from any index end
\* on the last image, or on the first.
C18_SkipNeverStalls ==
    /\ (op.name = "skip_forward" /\ Len(images) >= 2)
           => /\ pc = "forward"
              /\ index <= Len(images) - 1
              /\ op.index < Len(images) - 1 => index > op.index
              /\ op.arg >= 10 => index = Len(images) - 1
    /\ (op.name = "skip_backward" /\ Len(images) >= 2)
           => /\ pc = "back"
              /\ index >= 0
              /\ op.index > 0 => index < op.index
              /\ op.arg >= 10 => index = 0

\* C18 witness: a run of skip_forward that needed its tenth skip to reach the last image.
C18_Witness ==
    /\ op.name = "skip_forward"
    /\ op.arg = 10
    /\ op.index < Len(images) - 1
    /\ index = Len(images) - 1

\* v with exactly one element taken out
OneRemoved(v, w) == \E i \in 0..(Len(v) - 1) : w = vec_remove(v, i)

\* C19: images changes only in a Move or Delete that returned Ok, which takes
\* exactly one element out; every other operation, Copy and the failed Move
\* and Delete included, leaves it as it was, so it never grows or reorders.
C19_OnlyMoveDeleteShrink ==
    /\ Len(images) <= Len(op.images)
    /\ (op.name \in {"Move", "Delete"} /\ op.ret = "Ok")
           => /\ Len(images) = Len(op.images) - 1
              /\ OneRemoved(op.images, images)
    /\ ~(op.name \in {"Move", "Delete"} /\ op.ret = "Ok") => images = op.images

\* C19 witness: the long list after a Move, one element shorter.
C19_Witness ==
    /\ op.name = "Move"
    /\ op.ret = "Ok"
    /\ Len(op.images) = LongLen
    /\ Len(images) = LongLen - 1

\* C20: whenever the loop is about to take the next Action, the most recent
\* render request is the one for the current list and index; Copy, Move and
\* Delete therefore work on the path that was last requested.
C20_FrameMatchesState ==
    /\ pc = "loop" => frame = FrameOfState
    /\ op.name \in {"Copy", "Move", "Delete"}
           => \A k \in 1..Len(effects) :
                (IsFileCall(effects[k]) \/ IsDestFileCall(effects[k]))
                    => /\ op.frame.kind = "image"
                       /\ effects[k].arg = op.frame.path

\* C20 witness: a Copy after a Next, of the image the Next asked to show.
C20_Witness ==
    /\ op.name = "Copy"
    /\ op.index = 1
    /\ op.images = <<"a/x.png", "b/x.png">>
    /\ \E k \in 1..Len(effects) : effects[k] = Call("copy_file", "b/x.png", "Ok")

Abs(n) == IF n < 0 THEN -n ELSE n

\* the Rect is inside a viewport of dst_x by dst_y and centred in it to within 1 unit
FitsAndCentred(r, dst_x, dst_y) ==
    /\ r.w <= dst_x
    /\ r.h <= dst_y
    /\ r.x >= 0
    /\ r.y >= 0
    /\ Abs(2 * r.x - (dst_x - r.w)) <= 2
    /\ Abs(2 * r.y - (dst_y - r.h)) <= 2

\* C12: for all positive source and viewport dimensions make_dst returns a
\* Rect no wider and no higher than the viewport, whose offsets are never
\* negative and within 1 unit of (dst - size) / 2; make_dst(100, 50, 1000,
\* 1000) is (450, 475, 100, 50) and make_dst(2000, 1000, 800, 600) is
\* (0, 100, 800, 400).
C12_FitWithinViewport ==
    op.name = "make_dst"
        => /\ pc = "geom_done"
           /\ FitsAndCentred(frame.rect, op.arg[3], op.arg[4])
           /\ op.arg = <<100, 50, 1000, 1000>>
                  => frame.rect = [x |-> 450, y |-> 475, w |-> 100, h |-> 50]
           /\ op.arg = <<2000, 1000, 800, 600>>
                  => frame.rect = [x |-> 0, y |-> 100, w |-> 800, h |-> 400]

====
